---- MODULE Spec2Model ----
(***************************************************************************)
(* dreamcpp: the manifest codec (parse_config_file / serialise_config),    *)
(* the registry resolver (parse_repository_index / search_remote_index),   *)
(* and the commands dependency::add and dependency::sync of                *)
(* src/dreamcpp/src/main.cpp.                                              *)
(*                                                                         *)
(* Optional values (std::optional, a TOML key that may be missing or hold  *)
(* a value of another type) are sequences of length 0 or 1: <<>> is        *)
(* "nothing", <<v>> is "v".                                                *)
(***************************************************************************)
EXTENDS Integers, Sequences, FiniteSets, TLC

VARIABLES
    manifest,      \* the file dreamcpp.toml: [state, doc]
    registry,      \* the remote index document: [wellformed, tbl]
    gitInstalled,  \* whether `git --version` exits 0
    depDirs,       \* names n for which build/deps/n exists
    incDirs,       \* names n for which build/includes/n exists
    roots,         \* which of "build/deps", "build/includes" exist
    pc,            \* "idle", or "sync" while dependency::sync is in its loop
    loaded,        \* what parse_config_file last returned
    app,           \* the AppConfig the last command held when it returned
    idx,           \* position of the loop of dependency::sync in app.deps
    all_success,   \* the local all_success of dependency::sync
    log,           \* the calls of clone_single_dependency made by the sync
    ret,           \* what the last command did and returned
    prev,          \* ret of the command before the last one
    req,           \* the name resolve_dependency_url was called with
    got,           \* the response code it fetched, what it returned, its searches
    clones         \* per name, the `git clone` runs that exited 0 so far

vars == <<manifest, registry, gitInstalled, depDirs, incDirs, roots, pc, loaded, app,
          idx, all_success, log, ret, prev, req, got, clones>>

(***************************************************************************)
(* Bounds of the model.                                                    *)
(***************************************************************************)
MaxDeps == 2       \* entries of `dependencies` in an initial manifest
MaxAliases == 1    \* entries of `aliases` in a registry row
MaxIncludes == 1   \* entries of `includes`
MaxClones == 2     \* clones counts up to here ("twice or more")

None == <<>>
Some(v) == <<v>>

\* sequences over S of length at most n
RECURSIVE SeqUpTo(_, _)
SeqUpTo(S, n) ==
    IF n = 0 THEN {<<>>}
    ELSE LET shorter == SeqUpTo(S, n - 1)
         IN  shorter \cup {Append(s, x) : s \in {t \in shorter : Len(t) = n - 1}, x \in S}

Opt(S) == {None} \cup {Some(v) : v \in S}

(***************************************************************************)
(* Data: struct Dependency, struct DepIndex, struct AppConfig.             *)
(***************************************************************************)
Dependency(n, v, s) == [name |-> n, version |-> v, system |-> s]

DepIndex(g, a, h) == [git |-> g, aliases |-> a, header_only |-> h]

AppConfig == [name |-> "Dream++ Application", version |-> "1.0.0",
              includes |-> <<>>, standard |-> "c++20",
              preferred_compiler |-> "clang++", deps |-> <<>>]

\* std::filesystem::current_path().filename(): the fallback project name
project_name == "proj"

(***************************************************************************)
(* maybe_assign: the target keeps its value unless the key holds a T.      *)
(***************************************************************************)
value_or(v, default) == IF v = None THEN default ELSE v[1]

\* the target is never assigned
maybe_assign_never(v, target) == target

maybe_assign(v, target) == IF v # None THEN v[1] ELSE target

(***************************************************************************)
(* parse_config_file.  A document is a record of optional keys; array      *)
(* elements are optional too (<<>>: an element of another type).           *)
(***************************************************************************)
RECURSIVE parse_includes(_)
parse_includes(arr) ==
    IF arr = <<>> THEN <<>>
    ELSE LET val  == Head(arr)
             rest == parse_includes(Tail(arr))
         IN  IF val # None THEN <<val[1]>> \o rest ELSE rest

\* line 149: the entry is kept unless its name is empty or "unknown"
keeps_dependency(dep) == dep.name # "" /\ dep.name # "unknown"

RECURSIVE parse_dependencies(_)
parse_dependencies(arr) ==
    IF arr = <<>> THEN <<>>
    ELSE LET val  == Head(arr)
             rest == parse_dependencies(Tail(arr))
         IN  IF val # None
             THEN LET tbldep == val[1]
                      dep == Dependency(value_or(tbldep.name, "unknown"),
                                        value_or(tbldep.version, "latest"),
                                        value_or(tbldep.system, FALSE))
                  IN  IF keeps_dependency(dep) THEN <<dep>> \o rest ELSE rest
             ELSE rest

parse_config_file(file, fallback) ==
    IF file.state # "ok" THEN None      \* toml::parse_error: missing or malformed
    ELSE LET tbl == file.doc
             config == AppConfig
         IN  Some([name |-> value_or(tbl.name, fallback),
                   version |-> maybe_assign(tbl.version, config.version),
                   standard |-> maybe_assign(tbl.standard, config.standard),
                   preferred_compiler |->
                       maybe_assign(tbl.preferred_compiler, config.preferred_compiler),
                   includes |-> IF tbl.includes # None
                                THEN parse_includes(tbl.includes[1])
                                ELSE config.includes,
                   deps |-> IF tbl.dependencies # None
                            THEN parse_dependencies(tbl.dependencies[1])
                            ELSE config.deps])

(***************************************************************************)
(* serialise_config, sync_config, save_config.                             *)
(***************************************************************************)
\* lines 223-227: only name and version are inserted
serialise_dependency(dep) ==
    [name |-> Some(dep.name), version |-> Some(dep.version), system |-> None]

serialise_config(config) ==
    [name |-> Some(config.name),
     version |-> Some(config.version),
     includes |-> Some([i \in 1..Len(config.includes) |-> Some(config.includes[i])]),
     dependencies |->
         Some([i \in 1..Len(config.deps) |-> Some(serialise_dependency(config.deps[i]))]),
     standard |-> Some(config.standard),
     preferred_compiler |-> Some(config.preferred_compiler),
     extra |-> FALSE]

\* the file after sync_config: opened is whether std::ofstream could open it
sync_config(tbl, file, opened) ==
    IF opened THEN [state |-> "ok", doc |-> tbl] ELSE file

save_config(config, file, opened) == sync_config(serialise_config(config), file, opened)

(***************************************************************************)
(* fetchURL: the response code (0 when curl_easy_perform failed) and the   *)
(* body.  The registry document is a table from keys to optional rows      *)
(* (<<>>: the key is missing or its value is no table).                    *)
(***************************************************************************)
HTTP_OK == 200

\* 0: curl_easy_perform failed and responseCode kept its initial value
ResponseCodes == {HTTP_OK, 404, 0}

fetchURL(code, document) == [code |-> code, body |-> document]

Responses(document) == {fetchURL(c, document) : c \in ResponseCodes}

\* std::map<std::string, DepIndex> iterates its keys in this order
key_order == <<"", "liba", "libb", "unknown", "x">>

RECURSIVE parse_aliases(_)
parse_aliases(arr) ==
    IF arr = <<>> THEN <<>>
    ELSE LET alias == Head(arr)
             rest  == parse_aliases(Tail(arr))
         IN  IF alias # None THEN <<alias[1]>> \o rest ELSE rest

parse_row(vtbl) ==
    DepIndex(value_or(vtbl.git, ""),
             IF vtbl.aliases # None THEN parse_aliases(vtbl.aliases[1]) ELSE <<>>,
             value_or(vtbl.header, FALSE))

has_git_url_always(dep) == TRUE

\* line 193: only add if git URL exists
has_git_url(dep) == dep.git # ""

parse_repository_index(document) ==
    IF ~document.wellformed THEN None
    ELSE LET tbl == document.tbl
             kept == {k \in DOMAIN tbl :
                        tbl[k] # None /\ has_git_url(parse_row(tbl[k][1]))}
         IN  Some([k \in kept |-> parse_row(tbl[k][1])])

get_or_nullopt(map, key) == IF key \in DOMAIN map THEN Some(map[key]) ELSE None

InSeq(x, s) == \E i \in 1..Len(s) : s[i] = x

\* lines 310-316: the first entry, in the map's order, whose aliases hold dep_name
RECURSIVE search_aliases(_, _, _)
search_aliases(index, dep_name, i) ==
    IF i > Len(key_order) THEN None
    ELSE LET key == key_order[i]
         IN  IF key \in DOMAIN index /\ InSeq(dep_name, index[key].aliases)
             THEN Some(index[key])
             ELSE search_aliases(index, dep_name, i + 1)

\* the body is parsed whatever the response code
search_remote_index_any_status(response, dep_name) ==
    LET index == parse_repository_index(response.body)
    IN  IF index = None THEN None
        ELSE LET dep == get_or_nullopt(index[1], dep_name)
             IN  IF dep # None THEN dep
                 ELSE search_aliases(index[1], dep_name, 1)

\* the aliases are searched before the keys
search_remote_index_aliases_first(response, dep_name) ==
    IF response.code # HTTP_OK THEN None
    ELSE LET index == parse_repository_index(response.body)
         IN  IF index = None THEN None
             ELSE LET dep == search_aliases(index[1], dep_name, 1)
                  IN  IF dep # None THEN dep
                      ELSE get_or_nullopt(index[1], dep_name)

search_remote_index_keys_only(response, dep_name) ==
    IF response.code # HTTP_OK THEN None
    ELSE LET index == parse_repository_index(response.body)
         IN  IF index = None THEN None
             ELSE get_or_nullopt(index[1], dep_name)

search_remote_index(response, dep_name) ==
    IF response.code # HTTP_OK THEN None
    ELSE LET index == parse_repository_index(response.body)
         IN  IF index = None THEN None
             ELSE LET dep == get_or_nullopt(index[1], dep_name)
                  IN  IF dep # None THEN dep
                      ELSE search_aliases(index[1], dep_name, 1)

\* never yields a match
search_local_indexes(dep_name) == None

\* lines 322-328: the call of search_local_indexes is commented out
resolve_dependency_url(response, dep_name) == search_remote_index(response, dep_name)

\* the searches resolve_dependency_url makes, in the order it makes them
searches_made == <<"search_remote_index">>

(***************************************************************************)
(* dependency::validate_project_environment                                *)
(***************************************************************************)
\* git is not looked for
validate_project_environment_file_only(file, git) == file.state # "absent"

validate_project_environment(file, git) == file.state # "absent" /\ git

(***************************************************************************)
(* dependency::add, as a function of the file, the environment and the     *)
(* name: what it returns, what it did, and the file it leaves.             *)
(***************************************************************************)
Outcome(cmd, name, ok, parsed, resolve, stored, had) ==
    [cmd |-> cmd, name |-> name, ok |-> ok, parsed |-> parsed,
     resolve |-> resolve, stored |-> stored, had |-> had]

NoCommand == Outcome("none", "", FALSE, FALSE, "none", FALSE, 0)

CountName(deps, n) == Cardinality({i \in 1..Len(deps) : deps[i].name = n})

already_exists_never(deps, dep_name) == FALSE

already_exists_first(deps, dep_name) == deps # <<>> /\ deps[1].name = dep_name

\* lines 357-362
already_exists(deps, dep_name) == \E i \in 1..Len(deps) : deps[i].name = dep_name

add_unresolved(file, git, response, opened, dep_name) ==
    IF ~validate_project_environment(file, git)
    THEN [out |-> Outcome("add", dep_name, FALSE, FALSE, "none", FALSE, 0),
          file |-> file, loaded |-> None, app |-> AppConfig]
    ELSE LET parsed == parse_config_file(file, project_name)
         IN  IF parsed = None
             THEN [out |-> Outcome("add", dep_name, FALSE, TRUE, "none", FALSE, 0),
                   file |-> file, loaded |-> None, app |-> AppConfig]
             ELSE LET config == parsed[1]
                      had == CountName(config.deps, dep_name)
                  IN  IF already_exists(config.deps, dep_name)
                      THEN [out |-> Outcome("add", dep_name, TRUE, TRUE, "none", FALSE, had),
                            file |-> file, loaded |-> parsed, app |-> config]
                      ELSE LET repo_url == resolve_dependency_url(response, dep_name)
                               new_dep == Dependency(dep_name, "latest", FALSE)
                               saved == [config EXCEPT !.deps = Append(@, new_dep)]
                           IN  [out |-> Outcome("add", dep_name, opened, TRUE,
                                                IF repo_url = None THEN "notfound" ELSE "found",
                                                TRUE, had),
                                file |-> save_config(saved, file, opened),
                                loaded |-> parsed, app |-> saved]

\* an add of a name that is there saves the configuration it loaded
add_rewrites(file, git, response, opened, dep_name) ==
    IF ~validate_project_environment(file, git)
    THEN [out |-> Outcome("add", dep_name, FALSE, FALSE, "none", FALSE, 0),
          file |-> file, loaded |-> None, app |-> AppConfig]
    ELSE LET parsed == parse_config_file(file, project_name)
         IN  IF parsed = None
             THEN [out |-> Outcome("add", dep_name, FALSE, TRUE, "none", FALSE, 0),
                   file |-> file, loaded |-> None, app |-> AppConfig]
             ELSE LET config == parsed[1]
                      had == CountName(config.deps, dep_name)
                  IN  IF already_exists(config.deps, dep_name)
                      THEN [out |-> Outcome("add", dep_name, TRUE, TRUE, "none", FALSE, had),
                            file |-> save_config(config, file, opened),
                            loaded |-> parsed, app |-> config]
                      ELSE LET repo_url == resolve_dependency_url(response, dep_name)
                           IN  IF repo_url = None
                               THEN [out |-> Outcome("add", dep_name, FALSE, TRUE,
                                                     "notfound", FALSE, had),
                                     file |-> file, loaded |-> parsed, app |-> config]
                               ELSE LET new_dep == Dependency(dep_name, "latest", FALSE)
                                        saved == [config EXCEPT !.deps = Append(@, new_dep)]
                                    IN  [out |-> Outcome("add", dep_name, opened, TRUE,
                                                         "found", TRUE, had),
                                         file |-> save_config(saved, file, opened),
                                         loaded |-> parsed, app |-> saved]

add(file, git, response, opened, dep_name) ==
    IF ~validate_project_environment(file, git)
    THEN [out |-> Outcome("add", dep_name, FALSE, FALSE, "none", FALSE, 0),
          file |-> file, loaded |-> None, app |-> AppConfig]
    ELSE LET parsed == parse_config_file(file, project_name)
         IN  IF parsed = None
             THEN [out |-> Outcome("add", dep_name, FALSE, TRUE, "none", FALSE, 0),
                   file |-> file, loaded |-> None, app |-> AppConfig]
             ELSE LET config == parsed[1]
                      had == CountName(config.deps, dep_name)
                  IN  IF already_exists(config.deps, dep_name)
                      THEN [out |-> Outcome("add", dep_name, TRUE, TRUE, "none", FALSE, had),
                            file |-> file, loaded |-> parsed, app |-> config]
                      ELSE LET repo_url == resolve_dependency_url(response, dep_name)
                           IN  IF repo_url = None
                               THEN [out |-> Outcome("add", dep_name, FALSE, TRUE,
                                                     "notfound", FALSE, had),
                                     file |-> file, loaded |-> parsed, app |-> config]
                               ELSE LET new_dep == Dependency(dep_name, "latest", FALSE)
                                        saved == [config EXCEPT !.deps = Append(@, new_dep)]
                                    IN  [out |-> Outcome("add", dep_name, opened, TRUE,
                                                         "found", TRUE, had),
                                         file |-> save_config(saved, file, opened),
                                         loaded |-> parsed, app |-> saved]

(***************************************************************************)
(* dependency::clone_single_dependency, as a function of the directories,  *)
(* the environment and the name.  cloned: "ok" (git exits 0 and the target *)
(* exists), "failed" (git exits non-zero and leaves nothing), "killed"     *)
(* (the exit code is -1 and a partial target is left).  moved: "ok",       *)
(* "rename_failed", "mkdir_failed" for the header relocation.              *)
(***************************************************************************)
CloneOutcomes == {"ok", "failed", "killed"}
MoveOutcomes == {"ok", "rename_failed", "mkdir_failed"}

\* code: the response code fetched, exit: how git clone ended, moved: how the
\* header relocation ended; each is None when the step was not reached
Attempt(result, code, exit, moved, deps, incs) ==
    [result |-> result, resolved |-> code # None, cloned |-> exit # None,
     code |-> code, exit |-> exit, moved |-> moved,
     depDirs |-> deps, incDirs |-> incs]

Succeeded_any(result) == TRUE

Succeeded(result) == result \in {"Success", "SkippedExisting"}

target_exists_never(deps, dep_name) == FALSE

\* line 395
target_exists(deps, dep_name) == dep_name \in deps

is_system_library_never(dep) == FALSE

\* line 462
is_system_library(dep) == dep.system

sync_verdict_last(verdict, attempt_ok) == attempt_ok

sync_verdict_always(verdict, attempt_ok) == TRUE

\* lines 466-468: all_success once false stays false
sync_verdict(verdict, attempt_ok) == IF ~attempt_ok THEN FALSE ELSE verdict

\* a relocation that fails makes the call fail
clone_single_dependency_strict(deps, incs, response, cloned, moved, dep_name) ==
    IF target_exists(deps, dep_name)
    THEN Attempt("SkippedExisting", None, None, None, deps, incs)
    ELSE LET repo_index == resolve_dependency_url(response, dep_name)
             code == Some(response.code)
         IN  IF repo_index = None
             THEN Attempt("Unresolved", code, None, None, deps, incs)
             ELSE IF cloned # "ok"
             THEN Attempt("CloneError", code, Some(cloned), None,
                          IF cloned = "killed" THEN deps \cup {dep_name} ELSE deps, incs)
             ELSE IF ~repo_index[1].header_only
             THEN Attempt("Success", code, Some(cloned), None,
                          deps \cup {dep_name}, incs)
             ELSE Attempt(IF moved = "ok" THEN "Success" ELSE "MoveError",
                          code, Some(cloned), Some(moved), deps \cup {dep_name},
                          IF moved # "mkdir_failed" THEN incs \cup {dep_name} ELSE incs)

clone_single_dependency(deps, incs, response, cloned, moved, dep_name) ==
    IF target_exists(deps, dep_name)
    THEN Attempt("SkippedExisting", None, None, None, deps, incs)
    ELSE LET repo_index == resolve_dependency_url(response, dep_name)
             code == Some(response.code)
         IN  IF repo_index = None
             THEN Attempt("Unresolved", code, None, None, deps, incs)
             ELSE IF cloned # "ok"
             THEN Attempt("CloneError", code, Some(cloned), None,
                          IF cloned = "killed" THEN deps \cup {dep_name} ELSE deps, incs)
             ELSE IF ~repo_index[1].header_only
             THEN Attempt("Success", code, Some(cloned), None,
                          deps \cup {dep_name}, incs)
             \* lines 418-428: a filesystem_error of the relocation is caught
             ELSE Attempt("Success", code, Some(cloned), Some(moved),
                          deps \cup {dep_name},
                          IF moved # "mkdir_failed" THEN incs \cup {dep_name} ELSE incs)

roots_created_always(deps) == {"build/deps", "build/includes"}

\* lines 448-457: the roots a sync creates; none when there is nothing to sync
roots_created(deps) ==
    IF deps = <<>> THEN {} ELSE {"build/deps", "build/includes"}

\* the count of clones that exited 0, after one more call
count_clone(count, name, exit) ==
    IF exit = Some("ok")
    THEN [count EXCEPT ![name] = IF @ < MaxClones THEN @ + 1 ELSE @]
    ELSE count

(***************************************************************************)
(* The files and registry documents a run starts from.                     *)
(***************************************************************************)
Document(n, v, st, cc, inc, deps, extra) ==
    [name |-> n, version |-> v, standard |-> st, preferred_compiler |-> cc,
     includes |-> inc, dependencies |-> deps, extra |-> extra]

EmptyDocument == Document(None, None, None, None, None, None, FALSE)

File(state, doc) == [state |-> state, doc |-> doc]

AbsentFile == File("absent", EmptyDocument)
MalformedFile == File("malformed", EmptyDocument)

DependencyTables(names, versions, systems) ==
    [name : names, version : versions, system : systems]

ProjectDependencyTables ==
    DependencyTables({Some("liba"), Some("libb"), Some("unknown")},
                     {Some("1.2")}, {None, Some(TRUE)})

ProjectDocuments ==
    {Document(meta[1], meta[2], meta[3], meta[4], meta[5], deps, meta[6]) :
        meta \in {<<None, None, None, None, None, TRUE>>,
                  <<Some("app"), Some("0.3"), Some("c++17"), Some("g++"),
                    Some(<<Some("inc")>>), FALSE>>},
        deps \in Opt(SeqUpTo({Some(t) : t \in ProjectDependencyTables}, MaxDeps))}

ProjectFiles ==
    {AbsentFile, MalformedFile} \cup {File("ok", d) : d \in ProjectDocuments}

Row(g, h, a) == [git |-> g, header |-> h, aliases |-> a]

RegistryDocument(wellformed, tbl) == [wellformed |-> wellformed, tbl |-> tbl]

\* the index a project run fetches: liba (perhaps header-only, perhaps with
\* the alias libb) and perhaps a row named unknown
Registries(headers) ==
    {RegistryDocument(FALSE, [k \in {"liba", "unknown"} |-> None])} \cup
    {RegistryDocument(TRUE, [k \in {"liba", "unknown"} |->
                                IF k = "liba" THEN a ELSE u]) :
        a \in Opt([git : {Some("u1")}, header : headers,
                   aliases : {None, Some(<<Some("libb")>>)}]),
        u \in Opt({Row(Some("u2"), None, None)})}

\* add does not read header_only
AddRegistries == Registries({None})

SyncRegistries == Registries({None, Some(TRUE)})

CommandNames == {"liba", "libb", "unknown"}

(***************************************************************************)
(* `dreamcpp add <dep_name>`, run any number of times on one project.      *)
(* add reads and writes dreamcpp.toml only, sync reads dreamcpp.toml and   *)
(* writes below build/ only, so the two commands are explored apart.       *)
(***************************************************************************)
Idle ==
    /\ depDirs = {}
    /\ incDirs = {}
    /\ roots = {}
    /\ pc = "idle"
    /\ loaded = None
    /\ idx = 1
    /\ all_success = TRUE
    /\ log = <<>>
    /\ ret = NoCommand
    /\ prev = NoCommand
    /\ req = ""
    /\ got = [code |-> 0, result |-> None, searches |-> <<>>]
    /\ clones = [n \in CommandNames |-> 0]

Init ==
    /\ manifest \in ProjectFiles
    /\ registry \in AddRegistries
    /\ gitInstalled \in BOOLEAN
    /\ app = AppConfig
    /\ Idle

Add(dep_name) ==
    /\ pc = "idle"
    /\ \E response \in Responses(registry), opened \in BOOLEAN :
          LET r == add(manifest, gitInstalled, response, opened, dep_name)
          IN  /\ manifest' = r.file
              /\ loaded' = r.loaded
              /\ app' = r.app
              /\ ret' = r.out
              /\ prev' = ret
    /\ UNCHANGED <<registry, gitInstalled, depDirs, incDirs, roots, pc, idx,
                   all_success, log, req, got, clones>>

Next == \E dep_name \in CommandNames : Add(dep_name)

Spec == Init /\ [][Next]_vars

(***************************************************************************)
(* `dreamcpp sync`, run any number of times on one project.                *)
(***************************************************************************)
\* dependency::sync up to its loop (lines 434-460)
SyncBegin ==
    /\ pc = "idle"
    /\ log' = <<>>
    /\ prev' = ret
    /\ IF ~validate_project_environment(manifest, gitInstalled)
       THEN /\ ret' = Outcome("sync", "", FALSE, FALSE, "none", FALSE, 0)
            /\ UNCHANGED <<loaded, app, pc, idx, all_success, roots>>
       ELSE LET parsed == parse_config_file(manifest, project_name)
            IN  /\ loaded' = parsed
                /\ IF parsed = None
                   THEN /\ ret' = Outcome("sync", "", FALSE, TRUE, "none", FALSE, 0)
                        /\ UNCHANGED <<app, pc, idx, all_success, roots>>
                   ELSE /\ app' = parsed[1]
                        /\ IF parsed[1].deps = <<>>
                           THEN /\ ret' = Outcome("sync", "", TRUE, TRUE, "none", FALSE, 0)
                                /\ roots' = roots \cup roots_created(parsed[1].deps)
                                /\ UNCHANGED <<pc, idx, all_success>>
                           ELSE /\ roots' = roots \cup roots_created(parsed[1].deps)
                                /\ all_success' = TRUE
                                /\ idx' = 1
                                /\ pc' = "sync"
                                /\ ret' = NoCommand   \* the sync has not returned
    /\ UNCHANGED <<manifest, registry, gitInstalled, depDirs, incDirs, req, got, clones>>

\* one iteration of the loop (lines 461-469)
SyncDependency ==
    /\ pc = "sync"
    /\ idx <= Len(app.deps)
    /\ LET dep == app.deps[idx]
       IN  IF is_system_library(dep)
           THEN UNCHANGED <<depDirs, incDirs, all_success, log, clones>>
           ELSE \E response \in Responses(registry),
                   cloned \in CloneOutcomes, moved \in MoveOutcomes :
                   LET a == clone_single_dependency(depDirs, incDirs, response,
                                                    cloned, moved, dep.name)
                   IN  /\ depDirs' = a.depDirs
                       /\ incDirs' = a.incDirs
                       /\ all_success' = sync_verdict(all_success, Succeeded(a.result))
                       /\ log' = Append(log,
                             [idx |-> idx, name |-> dep.name,
                              existed |-> dep.name \in depDirs,
                              result |-> a.result, resolved |-> a.resolved,
                              cloned |-> a.cloned, code |-> a.code,
                              exit |-> a.exit, moved |-> a.moved])
                       /\ clones' = count_clone(clones, dep.name, a.exit)
    /\ idx' = idx + 1
    /\ UNCHANGED <<manifest, registry, gitInstalled, roots, pc, loaded, app,
                   ret, prev, req, got>>

\* the loop is over (lines 471-477)
SyncReturn ==
    /\ pc = "sync"
    /\ idx > Len(app.deps)
    /\ ret' = Outcome("sync", "", all_success, TRUE, "none", FALSE, 0)
    /\ pc' = "idle"
    /\ UNCHANGED <<manifest, registry, gitInstalled, depDirs, incDirs, roots,
                   loaded, app, idx, all_success, log, prev, req, got, clones>>

NextSync == SyncBegin \/ SyncDependency \/ SyncReturn

InitSync ==
    /\ manifest \in ProjectFiles
    /\ registry \in SyncRegistries
    /\ gitInstalled \in BOOLEAN
    /\ app = AppConfig
    /\ Idle

SpecSync == InitSync /\ [][NextSync]_vars

(***************************************************************************)
(* The codec alone: a configuration is stored with save_config and read    *)
(* back with parse_config_file.                                            *)
(***************************************************************************)
Dependencies(names, versions) ==
    {Dependency(n, v, sys) : n \in names, v \in versions, sys \in BOOLEAN}

Configs ==
    [name : {"app", "proj"}, version : {"1.0.0", "0.3"},
     standard : {"c++20", "c++17"}, preferred_compiler : {"clang++", "g++"},
     includes : SeqUpTo({"inc"}, MaxIncludes),
     deps : SeqUpTo(Dependencies({"liba", "libb"}, {"latest", "1.2"}), MaxDeps)]

InitCodec ==
    /\ manifest = AbsentFile
    /\ registry = RegistryDocument(FALSE, [k \in {"liba", "unknown"} |-> None])
    /\ gitInstalled = TRUE
    /\ app \in Configs
    /\ Idle

Store ==
    /\ \E opened \in BOOLEAN : manifest' = save_config(app, manifest, opened)
    /\ pc' = "stored"
    /\ loaded' = None
    /\ UNCHANGED <<registry, gitInstalled, depDirs, incDirs, roots, app, idx,
                   all_success, log, ret, prev, req, got, clones>>

Load ==
    /\ loaded' = parse_config_file(manifest, project_name)
    /\ pc' = IF pc = "stored" THEN "loaded" ELSE pc
    /\ UNCHANGED <<manifest, registry, gitInstalled, depDirs, incDirs, roots, app,
                   idx, all_success, log, ret, prev, req, got, clones>>

NextCodec == Store \/ Load

SpecCodec == InitCodec /\ [][NextCodec]_vars

(***************************************************************************)
(* The loader alone: parse_config_file on documents in which each key is   *)
(* there or not, and each entry of `dependencies` has each of its keys or  *)
(* not.                                                                    *)
(***************************************************************************)
LoadDependencyTables ==
    DependencyTables({Some("liba")}, Opt({"1.2"}), Opt({TRUE})) \cup
    DependencyTables({None, Some(""), Some("unknown")}, {Some("1.2")}, {None})

LoadDocuments ==
    {Document(n, v, st, cc, inc, deps, extra) :
        n \in Opt({"app"}), v \in Opt({"0.3"}), st \in Opt({"c++17"}),
        cc \in Opt({"g++"}), inc \in Opt(SeqUpTo(Opt({"inc"}), MaxIncludes)),
        deps \in Opt(SeqUpTo(Opt(LoadDependencyTables), MaxDeps)),
        extra \in BOOLEAN}

LoadFiles == {AbsentFile, MalformedFile} \cup {File("ok", d) : d \in LoadDocuments}

InitLoad ==
    /\ manifest \in LoadFiles
    /\ registry = RegistryDocument(FALSE, [k \in {"liba", "unknown"} |-> None])
    /\ gitInstalled = TRUE
    /\ app = AppConfig
    /\ Idle

NextLoad == Load

SpecLoad == InitLoad /\ [][NextLoad]_vars

(***************************************************************************)
(* The resolver alone: resolve_dependency_url on a fetched index.          *)
(***************************************************************************)
ResolverKeys == {"liba", "libb"}

ResolverRows ==
    [git : {None, Some(""), Some("u1"), Some("u2")},
     header : {None, Some(TRUE)},
     aliases : Opt(SeqUpTo(Opt({"liba", "x"}), MaxAliases))]

ResolverRegistries ==
    {RegistryDocument(FALSE, [k \in ResolverKeys |-> None])} \cup
    {RegistryDocument(TRUE, tbl) : tbl \in [ResolverKeys -> Opt(ResolverRows)]}

ResolverNames == {"liba", "libb", "x"}

InitResolve ==
    /\ manifest = AbsentFile
    /\ registry \in ResolverRegistries
    /\ gitInstalled = TRUE
    /\ app = AppConfig
    /\ Idle

Resolve(dep_name) ==
    /\ \E response \in Responses(registry) :
          got' = [code |-> response.code,
                  result |-> resolve_dependency_url(response, dep_name),
                  searches |-> searches_made]
    /\ req' = dep_name
    /\ pc' = "resolved"
    /\ UNCHANGED <<manifest, registry, gitInstalled, depDirs, incDirs, roots,
                   loaded, app, idx, all_success, log, ret, prev, clones>>

NextResolve == \E dep_name \in ResolverNames : Resolve(dep_name)

SpecResolve == InitResolve /\ [][NextResolve]_vars

(***************************************************************************)
(* Properties.                                                             *)
(***************************************************************************)
Distinct(deps) ==
    \A i, j \in 1..Len(deps) : deps[i].name = deps[j].name => i = j

\* the entries of `dependencies` in the file that are tables named n
FileCount(file, n) ==
    IF file.state # "ok" \/ file.doc.dependencies = None THEN 0
    ELSE LET arr == file.doc.dependencies[1]
         IN  Cardinality({i \in 1..Len(arr) :
                            arr[i] # None /\ arr[i][1].name = Some(n)})

Reloaded == parse_config_file(manifest, project_name)

\* C1 (as claimed): a configuration that was stored and loaded again comes
\* back equal in name, version, standard, preferred_compiler, includes and,
\* dependency by dependency, name, version and system.
C1_RoundTrip ==
    (pc = "loaded" /\ manifest.state = "ok") => loaded = Some(app)

\* C2: when resolve_dependency_url finds nothing during add, add returns
\* false, holds the deps it loaded, and never calls save_config, so the
\* file reads as before; and whenever add calls save_config the name was
\* resolved in that same call.
C2_ResolveBeforePersist ==
    ret.cmd = "add" =>
        /\ ret.resolve = "notfound" =>
              /\ ~ret.ok
              /\ ~ret.stored
              /\ app = loaded[1]
              /\ Reloaded = loaded
        /\ ret.stored => ret.resolve = "found"

C2_Witness ==
    /\ ret.cmd = "add"
    /\ ret.resolve = "notfound"
    /\ manifest.state = "ok"

\* the second of two adds of one name in a row, the first having returned
\* true, the second neither failing to resolve nor failing to write
SecondAdd ==
    /\ ret.cmd = "add"
    /\ prev.cmd = "add"
    /\ prev.name = ret.name
    /\ prev.ok
    /\ ret.resolve # "notfound"
    /\ ~(ret.stored /\ ~ret.ok)

\* C3 (as claimed): for any manifest, after add(name) has run twice in a
\* row the file lists exactly one dependency of that name and the second
\* add returned true.
C3_AddTwice ==
    SecondAdd => (ret.ok /\ FileCount(manifest, ret.name) = 1)

\* C3 (amended): the same, for a manifest that loads with at most one
\* dependency of that name.
C3_AddTwiceFromDistinct ==
    (SecondAdd /\ prev.had <= 1) => (ret.ok /\ FileCount(manifest, ret.name) = 1)

C3_Witness ==
    /\ SecondAdd
    /\ prev.stored
    /\ prev.had = 0
    /\ ret.resolve = "none"
    /\ FileCount(manifest, ret.name) = 1

\* C4 (as claimed): after add(name) returned true for a name that was not
\* declared, the file loads as the dependencies loaded before, unchanged,
\* followed by {name, "latest", system false}, with the other fields as
\* loaded before.
C4_AppendOnly ==
    (ret.cmd = "add" /\ ret.ok /\ ret.stored) =>
        Reloaded =
            Some([loaded[1] EXCEPT
                    !.deps = Append(@, Dependency(ret.name, "latest", FALSE))])

\* C5: a call of clone_single_dependency that finds build/deps/<name>
\* returns true as skipped, without resolving and without cloning.
C5_SkipExisting ==
    \A i \in 1..Len(log) :
        log[i].existed =>
            /\ log[i].result = "SkippedExisting"
            /\ Succeeded(log[i].result)
            /\ ~log[i].resolved
            /\ ~log[i].cloned

C5_Witness ==
    \E i \in 1..Len(log) : log[i].existed /\ log[i].result = "SkippedExisting"

\* the positions of the dependencies that are no system libraries, in order
RECURSIVE Fetched(_, _)
Fetched(deps, n) ==
    IF n = 0 THEN <<>>
    ELSE IF deps[n].system THEN Fetched(deps, n - 1)
    ELSE Append(Fetched(deps, n - 1), n)

Attempted == [i \in 1..Len(log) |-> log[i].idx]

SyncReturned == pc = "idle" /\ ret.cmd = "sync" /\ ret.parsed /\ loaded # None

C7_SystemNeverFetched ==
    (pc = "sync" \/ SyncReturned) =>
        /\ \A i \in 1..Len(log) : ~app.deps[log[i].idx].system
        /\ \A n \in depDirs \cup incDirs :
              \E i \in 1..Len(app.deps) : app.deps[i].name = n /\ ~app.deps[i].system
        /\ SyncReturned =>
              ret.ok = (\A i \in 1..Len(app.deps) :
                          app.deps[i].system \/
                          \E j \in 1..Len(log) :
                              log[j].idx = i /\ Succeeded(log[j].result))

C7_Witness ==
    /\ SyncReturned
    /\ ~ret.ok
    /\ Len(app.deps) = 2
    /\ app.deps[1].system
    /\ ~app.deps[2].system
    /\ Len(log) = 1
    /\ log[1].idx = 2
    /\ log[1].result = "Unresolved"
    /\ depDirs = {}

\* a row of the fetched document that carries a source URL
HasUrl(tbl, k) ==
    /\ k \in DOMAIN tbl
    /\ tbl[k] # None
    /\ tbl[k][1].git \notin {None, Some("")}

\* the strings of a row's aliases
Aliases(row) ==
    IF row.aliases = None THEN {}
    ELSE {row.aliases[1][i][1] :
            i \in {j \in 1..Len(row.aliases[1]) : row.aliases[1][j] # None}}

\* Resolve returned the descriptor of row k
Returned(tbl, k) ==
    /\ got.result # None
    /\ got.result[1].git = tbl[k][1].git[1]
    /\ got.result[1].header_only = (tbl[k][1].header = Some(TRUE))
    /\ {got.result[1].aliases[i] : i \in 1..Len(got.result[1].aliases)}
          = Aliases(tbl[k][1])

Fetched200 == pc = "resolved" /\ got.code = HTTP_OK /\ registry.wellformed

\* C8: on a fetched index, the key of a row with a source URL resolves to
\* that row, and so does each of its aliases that is no key of such a row
\* and no alias of another such row.
C8_AliasResolution ==
    Fetched200 =>
        \A k \in DOMAIN registry.tbl :
            HasUrl(registry.tbl, k) =>
                /\ req = k => Returned(registry.tbl, k)
                /\ ( /\ req \in Aliases(registry.tbl[k][1])
                     /\ ~HasUrl(registry.tbl, req)
                     /\ \A o \in DOMAIN registry.tbl \ {k} :
                           HasUrl(registry.tbl, o) =>
                               req \notin Aliases(registry.tbl[o][1]) )
                   => Returned(registry.tbl, k)

C8_Witness ==
    /\ Fetched200
    /\ req = "x"
    /\ HasUrl(registry.tbl, "libb")
    /\ "x" \in Aliases(registry.tbl["libb"][1])
    /\ Returned(registry.tbl, "libb")

\* C9: a row without git, or with an empty git, is no entry of the parsed
\* index, and no name resolves to it, by key or by alias.
C9_NoUrlNoEntry ==
    /\ LET index == parse_repository_index(registry)
       IN  index # None =>
               \A k \in DOMAIN index[1] : HasUrl(registry.tbl, k)
    /\ (pc = "resolved" /\ got.result # None) =>
          /\ got.result[1].git # ""
          /\ \E k \in DOMAIN registry.tbl :
                HasUrl(registry.tbl, k) /\ Returned(registry.tbl, k)

C9_Witness ==
    /\ Fetched200
    /\ req = "x"
    /\ registry.tbl["liba"] # None
    /\ registry.tbl["liba"][1].git = Some("")
    /\ "x" \in Aliases(registry.tbl["liba"][1])
    /\ registry.tbl["libb"] # None
    /\ registry.tbl["libb"][1].git = None
    /\ "x" \in Aliases(registry.tbl["libb"][1])
    /\ got.result = None

\* C10 (as claimed): the dependencies of every configuration that
\* parse_config_file returns, that add holds, and that is written to the
\* file have pairwise distinct names.
C10_Unique ==
    /\ loaded # None => Distinct(loaded[1].deps)
    /\ Distinct(app.deps)
    /\ ret.stored /\ ret.ok => \A n \in CommandNames : FileCount(manifest, n) <= 1

\* C10 (amended): add keeps the names distinct: when the dependencies it
\* loaded have pairwise distinct names, so have the configuration it holds
\* when it returns and the file it leaves.
C10_AddKeepsUnique ==
    (ret.cmd = "add" /\ loaded # None /\ Distinct(loaded[1].deps)) =>
        /\ Distinct(app.deps)
        /\ Distinct(Reloaded[1].deps)
        /\ ret.stored /\ ret.ok =>
              \A n \in CommandNames : FileCount(manifest, n) <= 1

C10_Witness ==
    /\ ret.cmd = "add"
    /\ ret.stored
    /\ ret.ok
    /\ Len(loaded[1].deps) = 2
    /\ Len(app.deps) = 3
    /\ Distinct(app.deps)

\* C11: the relocation of a header-only dependency's headers is best effort:
\* whenever git clone exits 0, clone_single_dependency returns true, whether
\* create_directory and rename succeeded or not, and sync returns true
\* exactly when every call found its target or cloned with exit 0, whatever
\* became of the relocations.
C11_RelocationBestEffort ==
    /\ \A i \in 1..Len(log) : log[i].exit = Some("ok") => log[i].result = "Success"
    /\ SyncReturned =>
          (ret.ok <=> \A i \in 1..Len(log) :
                          log[i].existed \/ log[i].exit = Some("ok"))

C11_Witness ==
    /\ SyncReturned
    /\ ret.ok
    /\ \E i \in 1..Len(log) :
          /\ log[i].exit = Some("ok")
          /\ log[i].moved \in {Some("rename_failed"), Some("mkdir_failed")}
          /\ log[i].name \notin incDirs

\* a call of clone_single_dependency whose fetch failed in transport (code
\* 0), came back with another status than 200, or brought an unparsable body
SoftFailure(e) ==
    e.code # None /\ (e.code[1] # HTTP_OK \/ ~registry.wellformed)

\* C12: a fetch that fails in transport, returns a status other than 200 or
\* brings an unparsable body makes resolve_dependency_url return nothing:
\* the call of clone_single_dependency is Unresolved and clones nothing, and
\* the sync goes on: every later dependency that is no system library is
\* attempted and the sync returns false.
C12_SoftResolverFailure ==
    \A i \in 1..Len(log) :
        SoftFailure(log[i]) =>
            /\ log[i].result = "Unresolved"
            /\ ~log[i].cloned
            /\ SyncReturned =>
                  /\ ~ret.ok
                  /\ \A j \in (log[i].idx + 1)..Len(app.deps) :
                        ~app.deps[j].system => \E k \in 1..Len(log) : log[k].idx = j

C12_Witness ==
    /\ SyncReturned
    /\ Len(log) = 2
    /\ SoftFailure(log[1])
    /\ log[1].code = Some(0)
    /\ log[2].result = "Success"

\* C13: when dreamcpp.toml is missing or git is not installed, add returns
\* false before anything else: the file is not parsed, nothing is resolved
\* and nothing is written.
C13_AddPrecondition ==
    (ret.cmd = "add" /\ (manifest.state = "absent" \/ ~gitInstalled)) =>
        /\ ~ret.ok
        /\ ~ret.parsed
        /\ ret.resolve = "none"
        /\ ~ret.stored
        /\ loaded = None

C13_Witness ==
    /\ ret.cmd = "add"
    /\ ~gitInstalled
    /\ manifest.state = "ok"
    /\ FileCount(manifest, ret.name) = 0
    /\ ~ret.ok

EmptySyncReturned == SyncReturned /\ ret.ok /\ app.deps = <<>>

\* C14 (as claimed): a sync of a configuration without dependencies returns
\* true, resolves and clones nothing, and build/deps and build/includes
\* both exist when it returns.
C14_EmptySyncEnsuresRoots ==
    (SyncReturned /\ app.deps = <<>>) =>
        /\ ret.ok
        /\ log = <<>>
        /\ roots = {"build/deps", "build/includes"}

\* C14 (amended): a sync of a configuration without dependencies returns
\* true, resolves and clones nothing, and leaves the file system as it was:
\* it returns before build/deps and build/includes are created.
C14_EmptySyncNoEffect ==
    [][(pc = "idle" /\ loaded' # None /\ loaded'[1].deps = <<>>) =>
          /\ ret' = Outcome("sync", "", TRUE, TRUE, "none", FALSE, 0)
          /\ log' = <<>>
          /\ pc' = "idle"
          /\ roots' = roots
          /\ depDirs' = depDirs
          /\ incDirs' = incDirs
          /\ clones' = clones]_vars

C14_Witness ==
    /\ EmptySyncReturned
    /\ manifest.doc.dependencies # None
    /\ "build/deps" \notin roots
    /\ "build/includes" \notin roots

IsThere(e) == e # None

\* the elements of an array that have the expected type, unwrapped
Typed(arr) ==
    LET there == SelectSeq(arr, IsThere)
    IN  [i \in 1..Len(there) |-> there[i][1]]

IsDeclared(tbldep) == tbldep.name \notin {None, Some(""), Some("unknown")}

\* what the claim says of every key but `dependencies`
LoadedScalars(config, doc) ==
    /\ config.name = IF doc.name = None THEN project_name ELSE doc.name[1]
    /\ config.version = IF doc.version = None THEN "1.0.0" ELSE doc.version[1]
    /\ config.standard = IF doc.standard = None THEN "c++20" ELSE doc.standard[1]
    /\ config.preferred_compiler =
          IF doc.preferred_compiler = None THEN "clang++"
          ELSE doc.preferred_compiler[1]
    /\ config.includes = IF doc.includes = None THEN <<>> ELSE Typed(doc.includes[1])

\* config's deps are these tables, one by one, with the defaults of an entry
LoadedDependencies(config, tables) ==
    /\ Len(config.deps) = Len(tables)
    /\ \A i \in 1..Len(tables) :
          /\ tables[i].name # None => config.deps[i].name = tables[i].name[1]
          /\ config.deps[i].version =
                IF tables[i].version = None THEN "latest" ELSE tables[i].version[1]
          /\ config.deps[i].system =
                IF tables[i].system = None THEN FALSE ELSE tables[i].system[1]

\* C15 (as claimed): parse_config_file succeeds on every well-formed
\* document and returns, key by key, the default when the key is absent and
\* the document's value when it is present (per entry of dependencies:
\* version "latest" and system false when absent); keys it does not know
\* change nothing.
C15_LoadDefaults ==
    manifest.state = "ok" =>
        /\ Reloaded # None
        /\ loaded # None =>
              /\ LoadedScalars(loaded[1], manifest.doc)
              /\ LoadedDependencies(loaded[1],
                    IF manifest.doc.dependencies = None THEN <<>>
                    ELSE Typed(manifest.doc.dependencies[1]))

\* C15 (amended): as claimed, but an entry of dependencies whose name is
\* absent, empty or "unknown" is left out of deps.
C15_LoadDefaultsOfNamed ==
    manifest.state = "ok" =>
        /\ Reloaded # None
        /\ loaded # None =>
              /\ LoadedScalars(loaded[1], manifest.doc)
              /\ LoadedDependencies(loaded[1],
                    IF manifest.doc.dependencies = None THEN <<>>
                    ELSE SelectSeq(Typed(manifest.doc.dependencies[1]), IsDeclared))

C15_Witness ==
    /\ loaded # None
    /\ manifest.doc.name = None
    /\ manifest.doc.version # None
    /\ manifest.doc.standard = None
    /\ manifest.doc.extra
    /\ manifest.doc.dependencies # None
    /\ Len(manifest.doc.dependencies[1]) = 2
    /\ Len(loaded[1].deps) = 1
    /\ loaded[1].deps[1] = Dependency("liba", "latest", FALSE)

\* C16 (as claimed): resolve_dependency_url searches the local index
\* locations before the remote index; the local search finds nothing, so
\* what it returns is what the remote search returns.
C16_SearchOrder ==
    pc = "resolved" =>
        /\ got.searches = <<"search_local_indexes", "search_remote_index">>
        /\ search_local_indexes(req) = None
        /\ got.result = search_remote_index(fetchURL(got.code, registry), req)

\* C17: over any number of syncs of one project, git clone exits 0 at most
\* once for each name, and once a sync has returned true the next sync, and
\* so every later one, runs no git clone and returns true.
C17_ExactlyOnce ==
    /\ \A n \in DOMAIN clones : clones[n] <= 1
    /\ (prev.cmd = "sync" /\ prev.ok) =>
          /\ \A i \in 1..Len(log) : ~log[i].cloned
          /\ ret.cmd = "sync" => ret.ok

C17_Witness ==
    /\ prev.cmd = "sync"
    /\ prev.ok
    /\ SyncReturned
    /\ ret.ok
    /\ Len(log) = 2
    /\ log[1].name # log[2].name
    /\ \A i \in 1..Len(log) : log[i].existed /\ clones[log[i].name] = 1

\* C18: an add of a name the loaded deps already hold returns true without
\* resolving anything, whatever the registry answers, and without writing:
\* dreamcpp.toml is left exactly as it was.
C18_AddPresentIsNoOp ==
    [][(ret'.cmd = "add" /\ ret'.had >= 1) =>
          /\ ret'.ok
          /\ ret'.resolve = "none"
          /\ ~ret'.stored
          /\ manifest' = manifest]_vars

\* the name was in the file from the start, with keys add would not write,
\* and the registry cannot be parsed
C18_Witness ==
    /\ ret.cmd = "add"
    /\ ret.had >= 1
    /\ ret.ok
    /\ prev.cmd = "none"
    /\ ~registry.wellformed
    /\ manifest.doc.extra
    /\ \E i \in 1..Len(manifest.doc.dependencies[1]) :
          manifest.doc.dependencies[1][i][1].system = Some(TRUE)

\* the keys of the rows with a source URL whose aliases hold n
AliasedBy(tbl, n) ==
    {k \in DOMAIN tbl : HasUrl(tbl, k) /\ n \in Aliases(tbl[k][1])}

\* "liba" comes before "libb" in a std::map
Before(k, o) == \/ k = o
                \/ k = "liba" /\ o = "libb"

\* C19: a name that is the key of an entry resolves to that entry even when
\* another entry lists the name as an alias; the aliases are searched only
\* when no entry has the name as its key, and then the first entry in key
\* order whose aliases hold the name is returned.
C19_KeyBeforeAlias ==
    Fetched200 =>
        IF HasUrl(registry.tbl, req) THEN Returned(registry.tbl, req)
        ELSE IF AliasedBy(registry.tbl, req) = {} THEN got.result = None
        ELSE \E k \in AliasedBy(registry.tbl, req) :
                /\ \A o \in AliasedBy(registry.tbl, req) : Before(k, o)
                /\ Returned(registry.tbl, k)

C19_Witness ==
    /\ Fetched200
    /\ req = "liba"
    /\ HasUrl(registry.tbl, "liba")
    /\ HasUrl(registry.tbl, "libb")
    /\ "liba" \in Aliases(registry.tbl["libb"][1])
    /\ registry.tbl["liba"][1].git # registry.tbl["libb"][1].git
    /\ Returned(registry.tbl, "liba")
    /\ ~Returned(registry.tbl, "libb")

\* C20: when a sync of a configuration with dependencies returns true,
\* build/deps/<name> exists for every dependency that is no system library;
\* and nothing is rolled back: a directory whose clone exited 0 in this
\* sync is still there, during the rest of the loop and after the sync
\* returned, whatever it returned.
C20_SuccessMeansPresent ==
    /\ (SyncReturned /\ ret.ok /\ app.deps # <<>>) =>
          \A i \in 1..Len(app.deps) :
              ~app.deps[i].system => app.deps[i].name \in depDirs
    /\ \A i \in 1..Len(log) :
          log[i].exit = Some("ok") => log[i].name \in depDirs

\* a sync that failed after cloning liba, then a sync that found liba,
\* cloned the other dependency and returned true
C20_Witness ==
    /\ prev.cmd = "sync"
    /\ ~prev.ok
    /\ SyncReturned
    /\ ret.ok
    /\ Len(log) = 2
    /\ log[1].existed
    /\ clones[log[1].name] = 1
    /\ log[2].result = "Success"
    /\ {log[1].name, log[2].name} \subseteq depDirs

====
